---- MODULE Spec2Model ----
(***************************************************************************)
(* 4DMeshTool, generator.py: extrusion of a 3D tetrahedral mesh into a 4D  *)
(* mesh (extrude_to_4d), and the run load -> tetrahedralize -> extrude ->  *)
(* export (generate_tetrahedrons_4d).                                      *)
(*                                                                         *)
(* Vertex indices are 0-based as in the source; TLA+ sequences are 1-based *)
(* so node index v is the element v + 1 of a node sequence.  Real numbers  *)
(* (coordinates, w, the extrusion distance) are modelled by integers.      *)
(***************************************************************************)
EXTENDS Integers, Sequences, FiniteSets

VARIABLES
    pc,           \* position of the caller / of generate_tetrahedrons_4d
    nodes,        \* N x 3 node array handed to extrude_to_4d
    elements,     \* T x 4 index array handed to extrude_to_4d
    dist,         \* extrusion_distance
    wsel,         \* which w_coord_func is passed
    faces,        \* the local `faces` after np.unique (line 135)
    nodes_4d,     \* returned node array
    elements_4d,  \* returned element array
    error,        \* exception that ended the call, "none" if none
    prev,         \* what the previous call of extrude_to_4d returned
    again,        \* TRUE once the caller has permuted the mesh for a second call
    out_file,     \* the export file: exists, complete blocks, torn last block
    blk           \* loop index i of export_tetrahedrons_4d (start=1)

vars == <<pc, nodes, elements, dist, wsel, faces, nodes_4d, elements_4d,
          error, prev, again, out_file, blk>>

-----------------------------------------------------------------------------
(* Bounds of the explored inputs *)

MaxIdx == 4       \* vertex indices of the direct-call inputs are in 0..MaxIdx
MaxTets == 2      \* direct calls: at most this many input tetrahedra
MaxRunTets == 1   \* full runs: the tetrahedralizer returns at most this many
MaxLayout == 1    \* full runs: node coordinate layouts 0..MaxLayout

DistSet == {-1, 0, 1, 2}
WSet == {"zero", "sum"}

Range(s) == {s[p] : p \in DOMAIN s}

\* ascending 4-tuples over 0..m
AscRows(m) ==
    {r \in (0..m) \X (0..m) \X (0..m) \X (0..m) :
        r[1] < r[2] /\ r[2] < r[3] /\ r[3] < r[4]}

\* how a row lists the vertices of an ascending tuple: in order, or with a
\* repeated vertex (a degenerate row); other orders come from PermuteVertices
Selections == {<<1, 2, 3, 4>>, <<1, 1, 2, 3>>}

Rows(m) == {[p \in 1..4 |-> r[s[p]]] : r \in AscRows(m), s \in Selections}

RECURSIVE RowSeqs(_, _)
RowSeqs(R, t) ==
    IF t = 0 THEN {<<>>}
    ELSE LET shorter == RowSeqs(R, t - 1)
         IN  shorter \cup {Append(e, r) : e \in {x \in shorter : Len(x) = t - 1}, r \in R}

\* node i (0-based) of layout a
NodeArray(a, n) == [i \in 1..n |-> <<(a + i) % 3, (a * i) % 2, i % 2>>]

-----------------------------------------------------------------------------
(* extrude_to_4d *)

\* the w_coord_func passed: the default lambda, or x + y + z
WCoord(sel, x, y, z) == IF sel = "zero" THEN 0 ELSE x + y + z

Min2(a, b) == IF a <= b THEN a ELSE b
Max2(a, b) == IF a >= b THEN a ELSE b

\* mutant: sorted(..., reverse=True)
Sorted3_Descending(a, b, c) ==
    LET lo == Min2(a, Min2(b, c))
        hi == Max2(a, Max2(b, c))
    IN  <<hi, a + b + c - lo - hi, lo>>

\* sorted([a, b, c])
Sorted3(a, b, c) ==
    LET lo == Min2(a, Min2(b, c))
        hi == Max2(a, Max2(b, c))
    IN  <<lo, a + b + c - lo - hi, hi>>

\* mutant: the faces are appended without sorted()
TetFaces_Unsorted(tet) ==
    << <<tet[1], tet[2], tet[3]>>,
       <<tet[1], tet[2], tet[4]>>,
       <<tet[1], tet[3], tet[4]>>,
       <<tet[2], tet[3], tet[4]>> >>

\* the four faces appended for one tetrahedron (lines 127-132)
TetFaces(tet) ==
    << Sorted3(tet[1], tet[2], tet[3]),
       Sorted3(tet[1], tet[2], tet[4]),
       Sorted3(tet[1], tet[3], tet[4]),
       Sorted3(tet[2], tet[3], tet[4]) >>

\* the list `faces` after the loop over elements
ExtractFaces(elems) ==
    [m \in 1..(4 * Len(elems)) |-> TetFaces(elems[((m - 1) \div 4) + 1])[((m - 1) % 4) + 1]]

LexLess(f, g) ==
    \/ f[1] < g[1]
    \/ f[1] = g[1] /\ f[2] < g[2]
    \/ f[1] = g[1] /\ f[2] = g[2] /\ f[3] < g[3]

RECURSIVE SortRows(_)
SortRows(S) ==
    IF S = {} THEN <<>>
    ELSE LET m == CHOOSE f \in S : \A g \in S : g = f \/ LexLess(f, g)
         IN  <<m>> \o SortRows(S \ {m})

RECURSIVE KeepFirst(_, _)
KeepFirst(fs, seen) ==
    IF fs = <<>> THEN <<>>
    ELSE IF Head(fs) \in seen THEN KeepFirst(Tail(fs), seen)
    ELSE <<Head(fs)>> \o KeepFirst(Tail(fs), seen \cup {Head(fs)})

\* mutant: duplicates dropped in order of first appearance, without sorting
UniqueRows_FirstSeen(fs) == KeepFirst(fs, {})

\* np.unique(faces, axis=0): the distinct rows, sorted lexicographically
UniqueRows(fs) == SortRows(Range(fs))

\* mutant: the fourth vertex is not lifted to the top layer
ConnectFace_NoOffset(face, n) ==
    << <<face[1], face[2], face[3], face[1]>>,
       <<face[1], face[2], face[3], face[2]>>,
       <<face[1], face[2], face[3], face[3]>> >>

\* the three rows appended for one face (lines 141-144)
ConnectFace(face, n) ==
    << <<face[1], face[2], face[3], face[1] + n>>,
       <<face[1], face[2], face[3], face[2] + n>>,
       <<face[1], face[2], face[3], face[3] + n>> >>

ConnectingTets(fs, n) ==
    [m \in 1..(3 * Len(fs)) |-> ConnectFace(fs[((m - 1) \div 3) + 1], n)[((m - 1) % 3) + 1]]

\* elements + n
ElementsTop(elems, n) == [t \in 1..Len(elems) |-> [p \in 1..4 |-> elems[t][p] + n]]

\* mutant: the top layer is stacked without the extrusion distance
LiftNodes_NoDistance(nds, d, sel) ==
    LET n == Len(nds)
        w(i) == WCoord(sel, nds[i][1], nds[i][2], nds[i][3])
    IN  [i \in 1..(2 * n) |->
            IF i <= n THEN <<nds[i][1], nds[i][2], nds[i][3], w(i)>>
            ELSE <<nds[i - n][1], nds[i - n][2], nds[i - n][3], w(i - n)>>]

\* np.vstack((nodes_4d_base, nodes_4d_extruded))
LiftNodes(nds, d, sel) ==
    LET n == Len(nds)
        w(i) == WCoord(sel, nds[i][1], nds[i][2], nds[i][3])
    IN  [i \in 1..(2 * n) |->
            IF i <= n THEN <<nds[i][1], nds[i][2], nds[i][3], w(i)>>
            ELSE <<nds[i - n][1], nds[i - n][2], nds[i - n][3], w(i - n) + d>>]

\* mutant: the top-layer rows are added before the original rows
AssembleElements_TopFirst(elems, fs, n) ==
    ElementsTop(elems, n) \o elems \o ConnectingTets(fs, n)

\* the assembled element list (lines 112-146)
AssembleElements(elems, fs, n) ==
    elems \o ElementsTop(elems, n) \o ConnectingTets(fs, n)

\* the body of extrude_to_4d: it has no check and raises nothing of its own
ExtrudeTo4D ==
    LET n == Len(nodes)
        fs == UniqueRows(ExtractFaces(elements))
    IN  /\ nodes_4d' = LiftNodes(nodes, dist, wsel)
        /\ faces' = fs
        /\ elements_4d' = AssembleElements(elements, fs, n)
        /\ error' = "none"

-----------------------------------------------------------------------------
(* A caller of extrude_to_4d with the default distance and w function, who *)
(* then permutes the mesh and calls again.                                 *)

NoFile == [exists |-> FALSE, blocks |-> <<>>, torn |-> FALSE]
NoResult == [nodes |-> <<>>, elements |-> <<>>, tets |-> 0]

Init ==
    /\ pc = "call"
    /\ \E n \in {MaxIdx, MaxIdx + 1} : nodes = NodeArray(0, n)
    /\ elements \in RowSeqs(Rows(MaxIdx), MaxTets)
    /\ dist = 1
    /\ wsel = "zero"
    /\ faces = <<>>
    /\ nodes_4d = <<>>
    /\ elements_4d = <<>>
    /\ error = "none"
    /\ prev = NoResult
    /\ again = FALSE
    /\ out_file = NoFile
    /\ blk = 0

Extrude ==
    /\ pc = "call"
    /\ ExtrudeTo4D
    /\ pc' = "returned"
    /\ UNCHANGED <<nodes, elements, dist, wsel, prev, again, out_file, blk>>

Swap(s, a, b) == [p \in DOMAIN s |-> IF p = a THEN s[b] ELSE IF p = b THEN s[a] ELSE s[p]]

\* the input contract: every row has 4 distinct indices in [0, N)
ValidMesh ==
    \A t \in 1..Len(elements) :
        /\ \A p \in 1..4 : elements[t][p] >= 0 /\ elements[t][p] < Len(nodes)
        /\ Cardinality(Range(elements[t])) = 4

\* the caller holds a valid mesh, permutes it and calls extrude_to_4d again
Recall(elems) ==
    /\ pc = "returned"
    /\ ~again
    /\ ValidMesh
    /\ elements' = elems
    /\ prev' = [nodes |-> nodes_4d, elements |-> elements_4d, tets |-> Len(elements)]
    /\ again' = TRUE
    /\ pc' = "call"
    /\ UNCHANGED <<nodes, dist, wsel, faces, nodes_4d, elements_4d, error, out_file, blk>>

\* the caller exchanges two neighbouring input tetrahedra
ReorderTets ==
    \E a \in 1..(Len(elements) - 1) : Recall(Swap(elements, a, a + 1))

\* the caller exchanges two vertex indices inside one input tetrahedron
PermuteVertices ==
    \E t \in 1..Len(elements), p \in 1..4, q \in 1..4 :
        p < q /\ Recall([elements EXCEPT ![t] = Swap(elements[t], p, q)])

Next == Extrude \/ ReorderTets \/ PermuteVertices

Spec == Init /\ [][Next]_vars

-----------------------------------------------------------------------------
(* generate_tetrahedrons_4d: load, tetrahedralize, extrude, export *)

InitRun ==
    /\ pc = "load"
    /\ nodes = <<>>
    /\ elements = <<>>
    /\ dist \in DistSet
    /\ wsel \in WSet
    /\ faces = <<>>
    /\ nodes_4d = <<>>
    /\ elements_4d = <<>>
    /\ error = "none"
    /\ prev = NoResult
    /\ again = FALSE
    /\ out_file = NoFile
    /\ blk = 0

Raise(e) ==
    /\ pc' = "failed"
    /\ error' = e

\* _load_obj: pv.read returns the surface mesh or raises
LoadObj ==
    /\ pc = "load"
    /\ \/ pc' = "tetrahedralize" /\ error' = error
       \/ \E e \in {"FileNotFoundError", "OSError"} : Raise(e)
    /\ UNCHANGED <<nodes, elements, dist, wsel, faces, nodes_4d, elements_4d,
                   prev, again, out_file, blk>>

\* what TetGen returns: nodes and at least one tetrahedron, every row valid
TetGenMeshes ==
    {e \in RowSeqs(AscRows(MaxIdx), MaxRunTets) : Len(e) >= 1}

\* tetrahedralize_mesh: TetGen's nodes and elements, or its exception re-raised
TetrahedralizeMesh ==
    /\ pc = "tetrahedralize"
    /\ \/ /\ \E a \in 0..MaxLayout : nodes' = NodeArray(a, MaxIdx + 1)
          /\ elements' \in TetGenMeshes
          /\ pc' = "extrude"
          /\ error' = error
       \/ /\ Raise("TetGenError")
          /\ UNCHANGED <<nodes, elements>>
    /\ UNCHANGED <<dist, wsel, faces, nodes_4d, elements_4d, prev, again, out_file, blk>>

\* line 174
RunExtrude ==
    /\ pc = "extrude"
    /\ ExtrudeTo4D
    /\ pc' = "export"
    /\ UNCHANGED <<nodes, elements, dist, wsel, prev, again, out_file, blk>>

\* open(output_file, 'w') creates or truncates the file, or raises
ExportOpen ==
    /\ pc = "export"
    /\ \/ /\ out_file' = [exists |-> TRUE, blocks |-> <<>>, torn |-> FALSE]
          /\ blk' = 1
          /\ pc' = "export_loop"
          /\ error' = error
       \/ /\ Raise("OSError")
          /\ UNCHANGED <<out_file, blk>>
    /\ UNCHANGED <<nodes, elements, dist, wsel, faces, nodes_4d, elements_4d, prev, again>>

\* one block of the export file: its 1-based number and the four vertices' coordinates
Block(i, tetra, nds) == [index |-> i, verts |-> [p \in 1..4 |-> nds[tetra[p] + 1]]]

\* one iteration of the loop over elements_4d (lines 157-162).  nodes_4d[vertex_idx]
\* raises IndexError for an index past the array, after the header was written;
\* the except clause logs and re-raises, and the file stays as written so far.
ExportWriteTetra(i, tetra, nds) ==
    IF \A p \in 1..4 : tetra[p] < Len(nds)
    THEN /\ out_file' = [out_file EXCEPT !.blocks = Append(@, Block(i, tetra, nds))]
         /\ blk' = i + 1
         /\ UNCHANGED <<pc, error>>
    ELSE /\ out_file' = [out_file EXCEPT !.torn = TRUE]
         /\ blk' = i
         /\ Raise("IndexError")

ExportWrite ==
    /\ pc = "export_loop"
    /\ blk <= Len(elements_4d)
    /\ ExportWriteTetra(blk, elements_4d[blk], nodes_4d)
    /\ UNCHANGED <<nodes, elements, dist, wsel, faces, nodes_4d, elements_4d, prev, again>>

\* f.write raises (disk full, I/O error) inside an iteration: part of the block is
\* on disk, the exception is logged and re-raised, nothing removes the file
ExportWriteError ==
    /\ pc = "export_loop"
    /\ blk <= Len(elements_4d)
    /\ out_file' = [out_file EXCEPT !.torn = TRUE]
    /\ Raise("OSError")
    /\ UNCHANGED <<nodes, elements, dist, wsel, faces, nodes_4d, elements_4d,
                   prev, again, blk>>

\* the loop is exhausted, the file is closed, generate_tetrahedrons_4d returns
ExportDone ==
    /\ pc = "export_loop"
    /\ blk > Len(elements_4d)
    /\ pc' = "done"
    /\ UNCHANGED <<nodes, elements, dist, wsel, faces, nodes_4d, elements_4d,
                   error, prev, again, out_file, blk>>

NextRun ==
    \/ LoadObj
    \/ TetrahedralizeMesh
    \/ RunExtrude
    \/ ExportOpen
    \/ ExportWrite
    \/ ExportWriteError
    \/ ExportDone

SpecRun == InitRun /\ [][NextRun]_vars

-----------------------------------------------------------------------------
(* Properties *)

NumNodes == Len(nodes)
NumTets == Len(elements)

\* extrude_to_4d has returned (to the direct caller, or inside a run)
Extruded == pc \in {"returned", "export", "export_loop", "done"}

\* the 3-vertex subsets that are a face of at least one input tetrahedron
FaceSets ==
    UNION {{S \in SUBSET Range(elements[t]) : Cardinality(S) = 3} : t \in 1..NumTets}

NumFaces == Cardinality(FaceSets)

\* lexicographic order on triples by (first, second, third)
TripleBefore(f, g) ==
    \E p \in 1..3 : f[p] < g[p] /\ \A q \in 1..(p - 1) : f[q] = g[q]

\* a strictly increasing list of ascending triples that enumerates FaceSets
EnumeratesFaces(fs) ==
    LET F == FaceSets
    IN  /\ Len(fs) = Cardinality(F)
        /\ \A m \in 1..Len(fs) :
            /\ fs[m][1] < fs[m][2] /\ fs[m][2] < fs[m][3]
            /\ {fs[m][1], fs[m][2], fs[m][3]} \in F
        /\ \A m \in 1..(Len(fs) - 1) : TripleBefore(fs[m], fs[m + 1])

\* rows a+1 .. of a sequence
From(s, a) == SubSeq(s, a + 1, Len(s))

\* C1: for a valid input mesh the returned element array has exactly 2T + 3F
\* rows, F the number of distinct faces; one tetrahedron (0,1,2,3) gives 14 rows,
\* the two tetrahedra (0,1,2,3),(0,1,2,4) give 25.
C1_ElementCount ==
    (Extruded /\ ValidMesh) =>
        /\ Len(elements_4d) = 2 * NumTets + 3 * NumFaces
        /\ elements = << <<0, 1, 2, 3>> >> => NumFaces = 4 /\ Len(elements_4d) = 14
        /\ elements = << <<0, 1, 2, 3>>, <<0, 1, 2, 4>> >> =>
               NumFaces = 7 /\ Len(elements_4d) = 25

C1_Witness ==
    /\ pc = "returned"
    /\ ValidMesh
    /\ elements = << <<0, 1, 2, 3>>, <<0, 1, 2, 4>> >>
    /\ Len(elements_4d) = 25

\* the triangles (3-vertex sets) that are a face of the tetrahedron `row`
IsFaceOf(tri, row) == tri \subseteq Range(row)

\* in how many of the three tetrahedra `rows` the triangle is a face
FaceCount(tri, rows) == Cardinality({r \in 1..3 : IsFaceOf(tri, rows[r])})

\* the triangles lying in the boundary of the prism over face f: the bottom, the
\* top, and those inside one of the three side quadrilaterals
OnPrismBoundary(tri, f, n) ==
    \/ tri = {f[1], f[2], f[3]}
    \/ tri = {f[1] + n, f[2] + n, f[3] + n}
    \/ \E a \in 1..3, b \in 1..3 : a < b /\ tri \subseteq {f[a], f[b], f[a] + n, f[b] + n}

PrismConsistent(f, rows, n) ==
    LET verts == {f[1], f[2], f[3], f[1] + n, f[2] + n, f[3] + n}
        tris == {S \in SUBSET verts : Cardinality(S) = 3}
    IN  /\ \A tri \in tris : FaceCount(tri, rows) <= 2
        /\ \A tri \in tris : FaceCount(tri, rows) = 1 => OnPrismBoundary(tri, f, n)
        /\ FaceCount({f[1], f[2], f[3]}, rows) = 1
        /\ FaceCount({f[1] + n, f[2] + n, f[3] + n}, rows) = 1

\* C2: the three connecting tetrahedra of each unique face decompose its prism:
\* no triangle is a face of more than two of them, and the triangles that are a
\* face of exactly one are boundary triangles, the bottom and the top among them.
C2_PrismDecomposition ==
    (pc = "returned" /\ ValidMesh) =>
        \A m \in 1..Len(faces) :
            PrismConsistent(faces[m],
                            SubSeq(elements_4d, 2 * NumTets + 3 * m - 2, 2 * NumTets + 3 * m),
                            NumNodes)

\* C3: for a valid input mesh every returned row has 4 pairwise distinct indices,
\* each in [0, 2N), the index range of the returned node array.
C3_RowsDistinctInRange ==
    (Extruded /\ ValidMesh) =>
        \A r \in 1..Len(elements_4d) :
            /\ Cardinality(Range(elements_4d[r])) = 4
            /\ \A p \in 1..4 : elements_4d[r][p] >= 0 /\ elements_4d[r][p] < 2 * NumNodes
            /\ \A p \in 1..4 : elements_4d[r][p] < Len(nodes_4d)

C3_Witness ==
    /\ pc = "returned"
    /\ ValidMesh
    /\ elements = << <<0, 2, 1, 4>>, <<0, 1, 3, 4>> >>
    /\ \E r \in 1..Len(elements_4d) : elements_4d[r][4] = 2 * NumNodes - 1

\* C4: the returned nodes are the base layer (x, y, z, w(x,y,z)) in input order
\* followed by the top layer (x, y, z, w(x,y,z) + d) in the same order: 2N nodes.
C4_NodeLayers ==
    Extruded =>
        /\ Len(nodes_4d) = 2 * NumNodes
        /\ \A i \in 1..NumNodes :
            LET x == nodes[i][1]
                y == nodes[i][2]
                z == nodes[i][3]
                w == IF wsel = "zero" THEN 0 ELSE x + y + z
            IN  /\ nodes_4d[i] = <<x, y, z, w>>
                /\ nodes_4d[i + NumNodes] = <<x, y, z, w + dist>>

C4_Witness ==
    /\ pc = "export"
    /\ wsel = "sum"
    /\ dist = 2
    /\ NumNodes >= 4
    /\ \E i \in 1..NumNodes : nodes_4d[i][4] > 0 /\ nodes_4d[i + NumNodes][4] = nodes_4d[i][4] + 2

\* C5: the returned rows are the T input rows in input order, then the same rows
\* with every index increased by N, then for each unique face (i<j<k) in
\* lexicographic order the three rows (i,j,k,i+N), (i,j,k,j+N), (i,j,k,k+N).
C5_AssemblyOrder ==
    (Extruded /\ ValidMesh) =>
        LET conn == From(elements_4d, 2 * NumTets)
            F == NumFaces
            face(m) == <<conn[3 * m - 2][1], conn[3 * m - 2][2], conn[3 * m - 2][3]>>
        IN  /\ Len(elements_4d) >= 2 * NumTets
            /\ \A t \in 1..NumTets :
                /\ elements_4d[t] = elements[t]
                /\ \A p \in 1..4 : elements_4d[NumTets + t][p] = elements[t][p] + NumNodes
            /\ Len(conn) = 3 * F
            /\ EnumeratesFaces([m \in 1..F |-> face(m)])
            /\ \A m \in 1..F :
                /\ conn[3 * m - 2] = <<face(m)[1], face(m)[2], face(m)[3], face(m)[1] + NumNodes>>
                /\ conn[3 * m - 1] = <<face(m)[1], face(m)[2], face(m)[3], face(m)[2] + NumNodes>>
                /\ conn[3 * m] = <<face(m)[1], face(m)[2], face(m)[3], face(m)[3] + NumNodes>>

C5_Witness ==
    /\ pc = "returned"
    /\ ValidMesh
    /\ elements = << <<3, 1, 2, 0>>, <<0, 1, 2, 4>> >>
    /\ elements_4d[3] = <<8, 6, 7, 5>>
    /\ elements_4d[5] = <<0, 1, 2, 5>>
    /\ elements_4d[25] = <<1, 2, 4, 9>>

\* C6: with an extrusion distance d <= 0 the call fails with InvalidParameter at
\* entry: no node layer is produced and no mesh is returned.
C6_RejectsNonPositiveDistance ==
    dist <= 0 =>
        /\ ~Extruded
        /\ nodes_4d = <<>>
        /\ elements_4d = <<>>

\* C7: a tetrahedron with an index outside [0, N) or with fewer than 4 distinct
\* indices makes extrude_to_4d fail with InvalidMesh, returning no mesh.
C7_RejectsInvalidMesh ==
    (pc = "returned" /\ ~ValidMesh) =>
        /\ error = "InvalidMesh"
        /\ nodes_4d = <<>>
        /\ elements_4d = <<>>

\* C8: a run ends in success with an export file holding all 2T + 3F blocks, or in
\* failure with no output artifact: no partially written file is left behind.
C8_AllOrNothing ==
    /\ pc = "done" =>
        /\ out_file.exists /\ ~out_file.torn
        /\ Len(out_file.blocks) = 2 * NumTets + 3 * NumFaces
    /\ pc = "failed" => ~out_file.exists

\* C9: the unique faces handed to the connecting loop are the strictly
\* lexicographically increasing ascending triples enumerating exactly the faces
\* of the input tetrahedra, so no connecting tetrahedron is emitted twice.
C9_UniqueFaces ==
    (Extruded /\ ValidMesh) =>
        /\ EnumeratesFaces(faces)
        /\ LET conn == From(elements_4d, 2 * NumTets)
           IN  \A a \in 1..Len(conn), b \in 1..Len(conn) : conn[a] = conn[b] => a = b

C9_Witness ==
    /\ pc = "returned"
    /\ ValidMesh
    /\ elements = << <<0, 1, 2, 3>>, <<2, 1, 0, 4>> >>
    /\ Len(faces) = 7
    /\ faces[1] = <<0, 1, 2>>

\* C10: permuting the input tetrahedra, or the vertex indices inside one of them,
\* leaves the returned nodes and the last 3F element rows identical, row for row.
C10_ConnectingInvariant ==
    (pc = "returned" /\ again) =>
        /\ nodes_4d = prev.nodes
        /\ prev.tets = NumTets
        /\ From(elements_4d, 2 * NumTets) = From(prev.elements, 2 * prev.tets)

C10_Witness ==
    /\ pc = "returned"
    /\ again
    /\ NumTets = 2
    /\ NumFaces = 7
    /\ elements_4d # prev.elements
    /\ From(elements_4d, 2 * NumTets) = From(prev.elements, 2 * prev.tets)

====
